---- MODULE Spec2Model ----
(***************************************************************************)
(* A model of the Genthrust inventory-alarm bot (src/src/app.py): the      *)
(* text block scanner, the extraction source selector, the inventory       *)
(* snapshot loader, the reconciliation matcher and the polling cycle.      *)
(*                                                                         *)
(* Text is modelled as Python models it: a str is a sequence of            *)
(* one-character strings, and upper(), strip(), split(), splitlines() and  *)
(* the regular expressions are operators over such sequences.              *)
(***************************************************************************)
EXTENDS Integers, Sequences, FiniteSets, TLC

(***************************************************************************)
(* Characters and the str methods the program uses.                        *)
(***************************************************************************)
ToUpper ==
    ("a" :> "A") @@ ("b" :> "B") @@ ("c" :> "C") @@ ("d" :> "D") @@ ("e" :> "E") @@ ("f" :> "F") @@
    ("g" :> "G") @@ ("h" :> "H") @@ ("i" :> "I") @@ ("j" :> "J") @@ ("k" :> "K") @@ ("l" :> "L") @@
    ("m" :> "M") @@ ("n" :> "N") @@ ("o" :> "O") @@ ("p" :> "P") @@ ("q" :> "Q") @@ ("r" :> "R") @@
    ("s" :> "S") @@ ("t" :> "T") @@ ("u" :> "U") @@ ("v" :> "V") @@ ("w" :> "W") @@ ("x" :> "X") @@
    ("y" :> "Y") @@ ("z" :> "Z")

ToLower ==
    ("A" :> "a") @@ ("B" :> "b") @@ ("C" :> "c") @@ ("D" :> "d") @@ ("E" :> "e") @@ ("F" :> "f") @@
    ("G" :> "g") @@ ("H" :> "h") @@ ("I" :> "i") @@ ("J" :> "j") @@ ("K" :> "k") @@ ("L" :> "l") @@
    ("M" :> "m") @@ ("N" :> "n") @@ ("O" :> "o") @@ ("P" :> "p") @@ ("Q" :> "q") @@ ("R" :> "r") @@
    ("S" :> "s") @@ ("T" :> "t") @@ ("U" :> "u") @@ ("V" :> "v") @@ ("W" :> "w") @@ ("X" :> "x") @@
    ("Y" :> "y") @@ ("Z" :> "z")

DigitValue ==
    ("0" :> 0) @@ ("1" :> 1) @@ ("2" :> 2) @@ ("3" :> 3) @@ ("4" :> 4) @@
    ("5" :> 5) @@ ("6" :> 6) @@ ("7" :> 7) @@ ("8" :> 8) @@ ("9" :> 9)

Whitespace == {" ", "\t", "\n"}

IsDigit(c) == c \in DOMAIN DigitValue

IsSpace(c) == c \in Whitespace

UpperChar(c) == IF c \in DOMAIN ToUpper THEN ToUpper[c] ELSE c

LowerChar(c) == IF c \in DOMAIN ToLower THEN ToLower[c] ELSE c

IsAlpha(c) == c \in DOMAIN ToUpper \/ c \in DOMAIN ToLower

\* str.upper()
Upper(s) == [i \in 1..Len(s) |-> UpperChar(s[i])]

\* str.lower()
Lower(s) == [i \in 1..Len(s) |-> LowerChar(s[i])]

SetMin(S) == CHOOSE x \in S : \A y \in S : x <= y

SetMax(S) == CHOOSE x \in S : \A y \in S : y <= x

\* str.strip(chars): drop the leading and trailing characters that are in cs
Strip(s, cs) ==
    LET keep == {i \in 1..Len(s) : s[i] \notin cs}
    IN  IF keep = {} THEN << >> ELSE SubSeq(s, SetMin(keep), SetMax(keep))

\* str.startswith(p)
StartsWith(s, p) == Len(p) <= Len(s) /\ SubSeq(s, 1, Len(p)) = p

\* str.endswith(p)
EndsWith(s, p) == Len(p) <= Len(s) /\ SubSeq(s, Len(s) - Len(p) + 1, Len(s)) = p

\* the index after the longest run of characters of cs that starts at i
RunEnd(s, i, cs) ==
    LET stops == {j \in i..Len(s) : s[j] \notin cs}
    IN  IF stops = {} THEN Len(s) + 1 ELSE SetMin(stops)

RECURSIVE SplitFrom(_, _, _)
SplitFrom(s, i, seps) ==
    IF i > Len(s) THEN << >>
    ELSE IF s[i] \in seps THEN SplitFrom(s, i + 1, seps)
    ELSE LET e == RunEnd(s, i, {s[k] : k \in 1..Len(s)} \ seps)
         IN  <<SubSeq(s, i, e - 1)>> \o SplitFrom(s, e, seps)

\* str.split(): the maximal runs of non-whitespace characters
Split(s) == SplitFrom(s, 1, Whitespace)

RECURSIVE SplitLinesFrom(_, _)
SplitLinesFrom(s, i) ==
    IF i > Len(s) THEN << >>
    ELSE LET e == RunEnd(s, i, {s[k] : k \in 1..Len(s)} \ {"\n"})
         IN  <<SubSeq(s, i, e - 1)>> \o SplitLinesFrom(s, e + 1)

\* str.splitlines(): the lines without their terminators; a final terminator
\* opens no empty last line
splitlines(s) == SplitLinesFrom(s, 1)

RECURSIVE DigitsValue(_)
DigitsValue(s) ==
    IF s = << >> THEN 0
    ELSE 10 * DigitsValue(SubSeq(s, 1, Len(s) - 1)) + DigitValue[s[Len(s)]]

\* int(str): surrounding whitespace and one sign are accepted, then digits only
IntParses(s) ==
    LET t == Strip(s, Whitespace)
        d == IF t # << >> /\ t[1] \in {"-", "+"} THEN Tail(t) ELSE t
    IN  d # << >> /\ \A i \in 1..Len(d) : IsDigit(d[i])

IntValue(s) ==
    LET t == Strip(s, Whitespace)
    IN  IF t[1] = "-" THEN 0 - DigitsValue(Tail(t))
        ELSE IF t[1] = "+" THEN DigitsValue(Tail(t))
        ELSE DigitsValue(t)

RECURSIVE NatStr(_)
NatStr(n) ==
    LET d == CHOOSE c \in DOMAIN DigitValue : DigitValue[c] = n % 10
    IN  IF n < 10 THEN <<d>> ELSE NatStr(n \div 10) \o <<d>>

\* str(int)
IntStr(n) == IF n < 0 THEN <<"-">> \o NatStr(0 - n) ELSE NatStr(n)

(***************************************************************************)
(* extract_data_from_text: the regular expressions and the filters.        *)
(***************************************************************************)
\* the word w at position i of s, letters compared without case (re.IGNORECASE)
WordAt(s, i, w) ==
    /\ i + Len(w) - 1 <= Len(s)
    /\ \A k \in 1..Len(w) : UpperChar(s[i + k - 1]) = w[k]

QtyKeywords ==
    << <<"Q", "T", "Y">>,
       <<"Q", "U", "A", "N", "T", "I", "T", "Y">>,
       <<"C", "O", "U", "N", "T">> >>

UnitKeywords ==
    << <<"E", "A">>,
       <<"E", "A", "C", "H">>,
       <<"P", "C">>,
       <<"P", "C", "S">> >>

PartKeywords ==
    << <<"P", "/", "N">>,
       <<"P", "N">>,
       <<"P", "A", "R", "T">>,
       <<"P", "A", "R", "T", " ", "N", "O">>,
       <<"P", "A", "R", "T", " ", "N", "U", "M", "B", "E", "R">>,
       <<"A", "L", "T">>,
       <<"A", "L", "T", "E", "R", "N", "A", "T", "E">> >>

HeaderLabels ==
    { <<"A", "I", "R", "C", "R", "A", "F", "T", ":">>,
      <<"R", "E", "A", "S", "O", "N", ":">>,
      <<"S", "U", "B", "J", "E", "C", "T", ":">>,
      <<"F", "R", "O", "M", ":">>,
      <<"T", "O", ":">>,
      <<"S", "E", "N", "T", ":">>,
      <<"A", "D", "D", "R", "E", "S", "S", ":">>,
      <<"S", "H", "I", "P", " ", "T", "O", ":">> }

ignore_tokens ==
    { <<"Q", "T", "Y">>,
      <<"R", "E", "Q">>,
      <<"U", "M">>,
      <<"E", "A">>,
      <<"E", "A", "C", "H">>,
      <<"D", "E", "S", "C">>,
      <<"D", "E", "S", "C", "R", "I", "P", "T", "I", "O", "N">>,
      <<"R", "E", "V">>,
      <<"D", "A", "T", "E">>,
      <<"S", "I", "G", "N", "E", "D">>,
      <<"D", "E", "L", "I", "V", "E", "R", "E", "D">>,
      <<"B", "Y">>,
      <<"A", "N", "D">>,
      <<"O", "R">>,
      <<"T", "O">>,
      <<"F", "R", "O", "M">>,
      <<"S", "U", "B", "J", "E", "C", "T">>,
      <<"S", "E", "N", "T">>,
      <<"C", "C">>,
      <<"H", "I">>,
      <<"H", "E", "L", "L", "O">>,
      <<"R", "E", "G", "A", "R", "D", "S">>,
      <<"T", "H", "A", "N", "K", "S">>,
      <<"B", "O", "L", "T">>,
      <<"S", "C", "R", "E", "W">>,
      <<"W", "A", "S", "H", "E", "R">>,
      <<"N", "U", "T">>,
      <<"P", "I", "N">>,
      <<"R", "I", "V", "E", "T">>,
      <<"C", "O", "L", "L", "A", "R">>,
      <<"B", "U", "S", "H", "I", "N", "G">>,
      <<"S", "E", "A", "L">>,
      <<"S", "U", "P", "P", "O", "R", "T">>,
      <<"B", "E", "A", "R", "I", "N", "G">>,
      <<"C", "L", "A", "M", "P">>,
      <<"S", "N">>,
      <<"S", "/", "N">>,
      <<"S", "E", "R", "I", "A", "L">>,
      <<"A", "W", "B">>,
      <<"O", "U", "T", "B", "O", "U", "N", "D">>,
      <<"S", "H", "I", "P", "P", "I", "N", "G">>,
      <<"C", "O", "M", "P", "A", "N", "Y">>,
      <<"A", "C", "C", "O", "U", "N", "T">>,
      <<"U", "S", "E", "D">>,
      <<"N", "O", "T", "E", "S">>,
      <<"T", "R", "A", "C", "K", "I", "N", "G">>,
      <<"P", "H", "O", "N", "E">>,
      <<"F", "A", "X">>,
      <<"N", "E", "E", "D", "E", "D">>,
      <<"A", "S", "S", "E", "M", "B", "L", "Y">>,
      <<"A", "S", "S", "Y">> }

DigitChars == DOMAIN DigitValue

\* [:\s]
LabelSeps == Whitespace \cup {":"}

\* [A-Z0-9\-\.] under re.IGNORECASE
PartChars == DOMAIN ToLower \cup DOMAIN ToUpper \cup DigitChars \cup {"-", "."}

\* (?:QTY|QUANTITY|COUNT)[:\s]+(\d+) matched at position i: group 1, or << >>
QtyLabelAt(s, i) ==
    LET hits == {k \in 1..Len(QtyKeywords) :
                    /\ WordAt(s, i, QtyKeywords[k])
                    /\ LET j == i + Len(QtyKeywords[k])
                           d == RunEnd(s, j, LabelSeps)
                       IN  d > j /\ RunEnd(s, d, DigitChars) > d}
    IN  IF hits = {} THEN << >>
        ELSE LET j == i + Len(QtyKeywords[SetMin(hits)])
                 d == RunEnd(s, j, LabelSeps)
             IN  SubSeq(s, d, RunEnd(s, d, DigitChars) - 1)

\* (\d+)\s*(?:EA|EACH|PC|PCS) matched at position i: group 2, or << >>
QtyUnitAt(s, i) ==
    LET d == RunEnd(s, i, DigitChars)
        u == RunEnd(s, d, Whitespace)
    IN  IF d > i /\ \E k \in 1..Len(UnitKeywords) : WordAt(s, u, UnitKeywords[k])
        THEN SubSeq(s, i, d - 1)
        ELSE << >>

\* qty_regex.search(s): qty_match.group(1) or qty_match.group(2) of the leftmost
\* match, the first alternative tried first; << >> when nothing matches
qty_regex(s) ==
    LET at == {i \in 1..Len(s) : QtyLabelAt(s, i) # << >> \/ QtyUnitAt(s, i) # << >>}
    IN  IF at = {} THEN << >>
        ELSE LET i == SetMin(at)
             IN  IF QtyLabelAt(s, i) # << >> THEN QtyLabelAt(s, i) ELSE QtyUnitAt(s, i)

\* the labeled-part pattern matched at position i: <<end, group 1>> of the first
\* alternative whose label is followed by separators and a code, or << >>
PartLabelAt(s, i) ==
    LET hits == {k \in 1..Len(PartKeywords) :
                    /\ WordAt(s, i, PartKeywords[k])
                    /\ LET j == i + Len(PartKeywords[k])
                           d == RunEnd(s, j, LabelSeps)
                       IN  d > j /\ RunEnd(s, d, PartChars) > d}
    IN  IF hits = {} THEN << >>
        ELSE LET j == i + Len(PartKeywords[SetMin(hits)])
                 d == RunEnd(s, j, LabelSeps)
                 e == RunEnd(s, d, PartChars)
             IN  <<e, SubSeq(s, d, e - 1)>>

RECURSIVE FindAllFrom(_, _)
FindAllFrom(s, i) ==
    IF i > Len(s) THEN << >>
    ELSE IF PartLabelAt(s, i) = << >> THEN FindAllFrom(s, i + 1)
    ELSE <<PartLabelAt(s, i)[2]>> \o FindAllFrom(s, PartLabelAt(s, i)[1])

\* explicit_part_regex.findall(s): the codes of the non-overlapping matches
explicit_part_regex(s) == FindAllFrom(s, 1)

AllDigits(s) == \A i \in 1..Len(s) : IsDigit(s[i])

\* ^\d{3}-\d{3}-\d{4}$
IsPhone(t) ==
    /\ Len(t) = 12
    /\ t[4] = "-" /\ t[8] = "-"
    /\ \A i \in (1..12) \ {4, 8} : IsDigit(t[i])

\* ^\d{1,2}[/-]\d{1,2}[/-]\d{2,4}$
IsDate(t) ==
    \E a \in 1..2, b \in 1..2, c \in 2..4 :
        /\ Len(t) = a + b + c + 2
        /\ AllDigits(SubSeq(t, 1, a))
        /\ t[a + 1] \in {"/", "-"}
        /\ AllDigits(SubSeq(t, a + 2, a + b + 1))
        /\ t[a + b + 2] \in {"/", "-"}
        /\ AllDigits(SubSeq(t, a + b + 3, Len(t)))

\* ^N\d
IsTailNumber(t) == Len(t) >= 2 /\ t[1] = "N" /\ IsDigit(t[2])

\* ^\d+(ST|ND|RD|TH)$
IsOrdinal(t) ==
    /\ Len(t) >= 3
    /\ SubSeq(t, Len(t) - 1, Len(t)) \in {<<"S", "T">>, <<"N", "D">>, <<"R", "D">>, <<"T", "H">>}
    /\ AllDigits(SubSeq(t, 1, Len(t) - 2))

ExplicitStrip == {".", ",", ":", ";", " "}

TokenStrip == {".", ",", ":", ";", "(", ")", "[", "]", "\""}

\* A. the explicit matches of a line that are longer than two characters
ExplicitParts(clean_line) ==
    LET explicit == explicit_part_regex(clean_line)
        clean_p(i) == Strip(Upper(explicit[i]), ExplicitStrip)
    IN  {clean_p(i) : i \in {k \in 1..Len(explicit) : Len(clean_p(k)) > 2}}

\* the filters of the word scan: does the stripped token t survive them
TokenIsPart(t) ==
    /\ ~(Len(t) < 3)
    /\ \E i \in 1..Len(t) : IsDigit(t[i])
    /\ ~IsPhone(t)
    /\ ~IsDate(t)
    /\ ~IsTailNumber(t)
    /\ ~IsOrdinal(t)
    /\ t \notin ignore_tokens

\* B. the implicit matches of a line
ImplicitParts(clean_line) ==
    LET tokens == Split(clean_line)
        t(i) == Strip(Upper(tokens[i]), TokenStrip)
    IN  {t(i) : i \in {k \in 1..Len(tokens) : TokenIsPart(t(k))}}

line_parts(clean_line) == ExplicitParts(clean_line) \cup ImplicitParts(clean_line)

IsHeaderLine(clean_line) ==
    \E h \in HeaderLabels : StartsWith(Upper(clean_line), h)

RECURSIVE SetToSeq(_)
SetToSeq(S) ==
    IF S = {} THEN << >>
    ELSE LET x == CHOOSE y \in S : TRUE IN <<x>> \o SetToSeq(S \ {x})

Reverse(s) == [i \in 1..Len(s) |-> s[Len(s) + 1 - i]]

\* list(a set): the iteration order of a set of str depends on the process's
\* string hash seed; the same seed orders the same set the same way
ListOfSet(S, seed) == IF seed = 0 THEN SetToSeq(S) ELSE Reverse(SetToSeq(S))

\* int(qty_str), 1 when it raises
found_qty(qty_str) == IF IntParses(qty_str) THEN IntValue(qty_str) ELSE 1

\* the items a quantity line emits: one per pending part, in block order
QtyItems(block, q) == [i \in 1..Len(block) |-> [part |-> block[i], req_qty |-> q]]

\* ScanLine but a line is tested for a quantity before it is tested for a label
ScanLine_QuantityFirst(st, line, seed) ==
    LET clean_line == Strip(line, Whitespace)
    IN  IF clean_line = << >> THEN st
        ELSE IF qty_regex(clean_line) # << >>
        THEN [results |-> st.results \o
                          QtyItems(st.current_block_parts, found_qty(qty_regex(clean_line))),
              current_block_parts |-> << >>]
        ELSE IF IsHeaderLine(clean_line) THEN st
        ELSE [results |-> st.results,
              current_block_parts |-> st.current_block_parts \o
                                      ListOfSet(line_parts(clean_line), seed)]

\* ScanLine but a quantity line is scanned for parts as well
ScanLine_ScansQuantityLine(st, line, seed) ==
    LET clean_line == Strip(line, Whitespace)
    IN  IF clean_line = << >> THEN st
        ELSE IF IsHeaderLine(clean_line) THEN st
        ELSE IF qty_regex(clean_line) # << >>
        THEN [results |-> st.results \o
                          QtyItems(st.current_block_parts, found_qty(qty_regex(clean_line))),
              current_block_parts |-> ListOfSet(line_parts(clean_line), seed)]
        ELSE [results |-> st.results,
              current_block_parts |-> st.current_block_parts \o
                                      ListOfSet(line_parts(clean_line), seed)]

\* ScanLine but a part that is pending already is not added again
ScanLine_Dedupes(st, line, seed) ==
    LET clean_line == Strip(line, Whitespace)
        pending == {st.current_block_parts[i] : i \in 1..Len(st.current_block_parts)}
    IN  IF clean_line = << >> THEN st
        ELSE IF IsHeaderLine(clean_line) THEN st
        ELSE IF qty_regex(clean_line) # << >>
        THEN [results |-> st.results \o
                          QtyItems(st.current_block_parts, found_qty(qty_regex(clean_line))),
              current_block_parts |-> << >>]
        ELSE [results |-> st.results,
              current_block_parts |-> st.current_block_parts \o
                                      ListOfSet(line_parts(clean_line) \ pending, seed)]

\* ScanLine but the quantity branch leaves the pending parts in place
ScanLine_KeepsBlock(st, line, seed) ==
    LET clean_line == Strip(line, Whitespace)
    IN  IF clean_line = << >> THEN st
        ELSE IF IsHeaderLine(clean_line) THEN st
        ELSE IF qty_regex(clean_line) # << >>
        THEN [results |-> st.results \o
                          QtyItems(st.current_block_parts, found_qty(qty_regex(clean_line))),
              current_block_parts |-> st.current_block_parts]
        ELSE [results |-> st.results,
              current_block_parts |-> st.current_block_parts \o
                                      ListOfSet(line_parts(clean_line), seed)]

\* the body of the loop over the lines, applied to one line: the scanner state
\* st = [results, current_block_parts] after the line
ScanLine(st, line, seed) ==
    LET clean_line == Strip(line, Whitespace)
    IN  IF clean_line = << >> THEN st
        ELSE IF IsHeaderLine(clean_line) THEN st
        ELSE IF qty_regex(clean_line) # << >>
        THEN [results |-> st.results \o
                          QtyItems(st.current_block_parts, found_qty(qty_regex(clean_line))),
              current_block_parts |-> << >>]
        ELSE [results |-> st.results,
              current_block_parts |-> st.current_block_parts \o
                                      ListOfSet(line_parts(clean_line), seed)]

\* FlushItems but the parts still pending are dropped
FlushItems_Dropped(st) == st.results

\* the cleanup after the loop: the parts still pending get quantity 1
FlushItems(st) == st.results \o QtyItems(st.current_block_parts, 1)

(***************************************************************************)
(* Tables.  A DataFrame is [columns, rows]: the column labels and the rows, *)
(* each row one cell per column.  A cell is a str, an integer or NaN (an    *)
(* empty cell).                                                             *)
(***************************************************************************)
StrCell(s) == [t |-> "str", s |-> s, n |-> 0]

IntCell(n) == [t |-> "int", s |-> << >>, n |-> n]

NaN == [t |-> "nan", s |-> << >>, n |-> 0]

\* str(cell)
CellStr(c) ==
    IF c.t = "str" THEN c.s
    ELSE IF c.t = "int" THEN IntStr(c.n)
    ELSE <<"n", "a", "n">>

\* int(cell) returns: a NaN and a str that is no integer literal raise
CellIntParses(c) ==
    IF c.t = "str" THEN IntParses(c.s) ELSE c.t = "int"

CellIntValue(c) == IF c.t = "str" THEN IntValue(c.s) ELSE c.n

DataFrame(columns, rows) == [columns |-> columns, rows |-> rows]

\* df.empty
IsEmpty(df) == Len(df.columns) = 0 \/ Len(df.rows) = 0

ExcelPartKeywords ==
    << <<"P", "/", "N">>,
       <<"P", "N">>,
       <<"P", "A", "R", "T">>,
       <<"P", "A", "R", "T", " ", "N", "U", "M", "B", "E", "R">>,
       <<"I", "T", "E", "M">> >>

ExcelQtyKeywords ==
    << <<"Q", "T", "Y">>,
       <<"Q", "U", "A", "N", "T", "I", "T", "Y">>,
       <<"R", "E", "Q">>,
       <<"Q", "T", "Y", " ", "R", "E", "Q">> >>

HtmlPartKeywords ==
    << <<"P", "/", "N">>,
       <<"P", "N">>,
       <<"P", "A", "R", "T">>,
       <<"P", "A", "R", "T", " ", "N", "U", "M", "B", "E", "R">> >>

HtmlQtyKeywords ==
    << <<"Q", "T", "Y">>,
       <<"Q", "U", "A", "N", "T", "I", "T", "Y">> >>

\* find_column_by_name(df, keywords): the position of the column the first
\* keyword that names one stands for, 0 for None.  Of the columns whose
\* str(c).upper().strip() is that keyword the dict keeps the last.
find_column_by_name(df, keywords) ==
    LET key(i) == Strip(Upper(CellStr(df.columns[i])), Whitespace)
        named(k) == {i \in 1..Len(df.columns) : key(i) = keywords[k]}
        found == {k \in 1..Len(keywords) : named(k) # {}}
    IN  IF found = {} THEN 0 ELSE SetMax(named(SetMin(found)))

\* q = int(row[qty_col]) if qty_col else 1, and 1 when int() raises
RowQty(row, qty_col) ==
    IF qty_col = 0 THEN 1
    ELSE IF CellIntParses(row[qty_col]) THEN CellIntValue(row[qty_col])
    ELSE 1

\* p = str(row[part_col]).strip().upper()
RowPart(row, part_col) == Upper(Strip(CellStr(row[part_col]), Whitespace))

RECURSIVE RowItems(_, _, _)
RowItems(rows, part_col, qty_col) ==
    IF rows = << >> THEN << >>
    ELSE LET p == RowPart(Head(rows), part_col)
         IN  (IF p # << >> /\ p # <<"N", "A", "N">>
              THEN <<[part |-> p, req_qty |-> RowQty(Head(rows), qty_col)]>>
              ELSE << >>) \o RowItems(Tail(rows), part_col, qty_col)

\* the loop over df.iterrows(): one item per row that names a part
ExtractRows(df, part_col, qty_col) == RowItems(df.rows, part_col, qty_col)

\* df_promoted: the first row becomes the header, the other rows stay
Promote(df) == DataFrame(df.rows[1], Tail(df.rows))

(***************************************************************************)
(* extract_data_from_email: the three strategies.                           *)
(*                                                                          *)
(* TEMP_DIR is a function from file names to file contents; a content is    *)
(* [readable, df]: whether pd.read_excel returns, and the table it returns. *)
(* An attachment is [name, save_ok, content]: attachment.save writes the    *)
(* content under the name, or writes nothing and returns False.             *)
(* A body is [empty, tables, text]: whether message.body is None or "",     *)
(* the tables pd.read_html finds in it (it raises when it finds none), and  *)
(* the text BeautifulSoup's get_text gives.                                 *)
(***************************************************************************)
NoFiles == [f \in {} |-> [readable |-> FALSE, df |-> DataFrame(<< >>, << >>)]]

\* a file written: attachment.save(TEMP_DIR)
WriteFile(dir, name, content) ==
    [f \in DOMAIN dir \cup {name} |-> IF f = name THEN content ELSE dir[f]]

\* os.remove(save_path)
RemoveFile(dir, name) == [f \in DOMAIN dir \ {name} |-> dir[f]]

SpreadsheetExtensions == {<<".", "x", "l", "s", "x">>, <<".", "x", "l", "s">>}

\* attachment.name.lower().endswith(('.xlsx', '.xls'))
IsSpreadsheetName(name) == \E e \in SpreadsheetExtensions : EndsWith(Lower(name), e)

ExcelLabel(name) == <<"E", "x", "c", "e", "l", " ", "(">> \o name \o <<")">>

HtmlLabel == <<"H", "T", "M", "L", " ", "T", "a", "b", "l", "e">>

TextLabel == <<"T", "e", "x", "t", " ", "S", "c", "a", "n", "n", "e", "r">>

Outcome(o, items, method, dir) ==
    [outcome |-> o, items |-> items, method |-> method, temp_files |-> dir]

\* the body of the try statement for one spreadsheet attachment: "return" with
\* the items of a table whose part-number column resolves, "none" when it does
\* not resolve, "raised" when the file cannot be read
ReadAttachment(att, dir) ==
    LET saved == IF att.save_ok THEN WriteFile(dir, att.name, att.content) ELSE dir
    IN  IF att.name \notin DOMAIN saved \/ ~saved[att.name].readable
        THEN Outcome("raised", << >>, << >>, saved)
        ELSE LET df == saved[att.name].df
                 part_col == find_column_by_name(df, ExcelPartKeywords)
                 qty_col == find_column_by_name(df, ExcelQtyKeywords)
             IN  IF part_col # 0
                 THEN Outcome("return", ExtractRows(df, part_col, qty_col),
                              ExcelLabel(att.name), RemoveFile(saved, att.name))
                 ELSE Outcome("none", << >>, << >>, saved)

\* ExcelExcept but the error is raised again
ExcelExcept_Reraise(r) == r

\* except Exception: the error is logged and the loop goes on
ExcelExcept(r) == IF r.outcome = "raised" THEN [r EXCEPT !.outcome = "none"] ELSE r

\* TryAttachment but a spreadsheet that gives no item does not end the search
TryAttachment_SkipsEmpty(att, dir) ==
    LET r == IF IsSpreadsheetName(att.name)
             THEN ExcelExcept(ReadAttachment(att, dir))
             ELSE Outcome("none", << >>, << >>, dir)
    IN  IF r.outcome = "return" /\ r.items = << >>
        THEN Outcome("none", << >>, << >>, r.temp_files)
        ELSE r

\* one pass of the loop over message.attachments
TryAttachment(att, dir) ==
    IF IsSpreadsheetName(att.name)
    THEN ExcelExcept(ReadAttachment(att, dir))
    ELSE Outcome("none", << >>, << >>, dir)

\* one pass of the loop over the tables of the body
ReadTable(df) ==
    LET part_col == find_column_by_name(df, HtmlPartKeywords)
        qty_col == find_column_by_name(df, HtmlQtyKeywords)
        promote == part_col = 0 /\ ~IsEmpty(df)
        df_promoted == Promote(df)
        table == IF promote THEN df_promoted ELSE df
        part_col2 == IF promote THEN find_column_by_name(df_promoted, HtmlPartKeywords)
                     ELSE part_col
        qty_col2 == IF promote THEN find_column_by_name(df_promoted, HtmlQtyKeywords)
                    ELSE qty_col
    IN  IF part_col2 # 0
        THEN [found |-> TRUE, items |-> ExtractRows(table, part_col2, qty_col2)]
        ELSE [found |-> FALSE, items |-> << >>]

RECURSIVE ReadTables(_)
ReadTables(dfs) ==
    IF dfs = << >> THEN [found |-> FALSE, items |-> << >>]
    ELSE IF ReadTable(Head(dfs)).found THEN ReadTable(Head(dfs))
    ELSE ReadTables(Tail(dfs))

\* the body of the try statement of the HTML strategy
ReadHtml(body, dir) ==
    IF body.tables = << >> THEN Outcome("raised", << >>, << >>, dir)
    ELSE IF ReadTables(body.tables).found
    THEN Outcome("return", ReadTables(body.tables).items, HtmlLabel, dir)
    ELSE Outcome("none", << >>, << >>, dir)

\* except: pass
HtmlExcept(r) == IF r.outcome = "raised" THEN [r EXCEPT !.outcome = "none"] ELSE r

\* 2. HTML tables, tried when message.body is neither None nor ""
TryHtml(body, dir) ==
    IF body.empty THEN Outcome("none", << >>, << >>, dir)
    ELSE HtmlExcept(ReadHtml(body, dir))

\* soup.get_text(separator="\n"), "" when BeautifulSoup raises (a None body)
body_text(body) == IF body.empty THEN << >> ELSE body.text

\* full_text = f"{message.subject}\n{body_text}"
full_text(message) == message.subject \o <<"\n">> \o body_text(message.body)

(***************************************************************************)
(* load_inventory.  The data directory is [sp_name, files]: the base name   *)
(* of SP_FILE_PATH (<< >> when it is not set) and the files by name.  A     *)
(* file is [readable, has_index, grid]: whether pandas can read it, whether *)
(* a workbook has a sheet InventoryIndex, and the rows of the sheet read,   *)
(* the first being the header row of a plain read.                          *)
(***************************************************************************)
RECURSIVE Without(_, _)
Without(s, c) ==
    IF s = << >> THEN << >>
    ELSE (IF Head(s) = c THEN << >> ELSE <<Head(s)>>) \o Without(Tail(s), c)

\* w in s
Contains(s, w) == \E i \in 1..(Len(s) - Len(w) + 1) : SubSeq(s, i, i + Len(w) - 1) = w

CsvName == <<"i", "n", "v", "e", "n", "t", "o", "r", "y", ".", "c", "s", "v">>

PartNumberToken == <<"P", "A", "R", "T", "N", "U", "M", "B", "E", "R">>

part_number == StrCell(<<"p", "a", "r", "t", "_", "n", "u", "m", "b", "e", "r">>)

quantity == StrCell(<<"q", "u", "a", "n", "t", "i", "t", "y">>)

condition == StrCell(<<"c", "o", "n", "d", "i", "t", "i", "o", "n">>)

NA == StrCell(<<"N", "/", "A">>)

\* df.rename(columns={'PartNumber': 'part_number', 'Qty': 'quantity',
\* 'Condition': 'condition'})
RenameColumn(c) ==
    IF c = StrCell(<<"P", "a", "r", "t", "N", "u", "m", "b", "e", "r">>) THEN part_number
    ELSE IF c = StrCell(<<"Q", "t", "y">>) THEN quantity
    ELSE IF c = StrCell(<<"C", "o", "n", "d", "i", "t", "i", "o", "n">>) THEN condition
    ELSE c

\* the columns of df that carry the label
ColumnsNamed(df, label) == {i \in 1..Len(df.columns) : df.columns[i] = label}

NoneDf == [is_none |-> TRUE, table |-> DataFrame(<< >>, << >>)]

SomeDf(df) == [is_none |-> FALSE, table |-> df]

\* the file load_inventory reads: the synced workbook when SP_FILE_PATH is set
\* and the file exists, else inventory.csv when it exists, else << >>
target_file(dir) ==
    IF dir.sp_name # << >> /\ dir.sp_name \in DOMAIN dir.files THEN dir.sp_name
    ELSE IF CsvName \in DOMAIN dir.files THEN CsvName
    ELSE << >>

\* pd.read_excel / pd.read_csv with the header in row h of the sheet (from 0)
ReadGrid(grid, h) ==
    IF Len(grid) <= h THEN DataFrame(<< >>, << >>)
    ELSE DataFrame(grid[h + 1], SubSeq(grid, h + 2, Len(grid)))

\* does row i of df (from 0) hold the token PARTNUMBER, spaces and case aside
IsHeaderRow(df, i) ==
    \E k \in 1..Len(df.rows[i + 1]) :
        Contains(Without(Upper(CellStr(df.rows[i + 1][k])), " "), PartNumberToken)

HeaderScanRows == 10

\* header_idx: the first of the first ten rows that is a header row, -1 for None
header_idx(df) ==
    LET lim == IF Len(df.rows) < HeaderScanRows THEN Len(df.rows) ELSE HeaderScanRows
        hits == {i \in 0..(lim - 1) : IsHeaderRow(df, i)}
    IN  IF hits = {} THEN 0 - 1 ELSE SetMin(hits)

\* df['part_number'].astype(str).str.strip().str.upper()
NormalizePart(df) ==
    LET c == CHOOSE i \in ColumnsNamed(df, part_number) : TRUE
    IN  DataFrame(df.columns,
                  [r \in 1..Len(df.rows) |->
                      [k \in 1..Len(df.columns) |->
                          IF k = c
                          THEN StrCell(Upper(Strip(CellStr(df.rows[r][k]), Whitespace)))
                          ELSE df.rows[r][k]]])

\* the part of load_inventory after the file is chosen
LoadFile(name, file) ==
    LET df == ReadGrid(file.grid, 0)
        h == header_idx(df)
        reread == h >= 0 /\ EndsWith(name, <<".", "x", "l", "s", "x">>)
        df2 == IF reread THEN ReadGrid(file.grid, h + 1) ELSE df
        df3 == DataFrame([k \in 1..Len(df2.columns) |-> RenameColumn(df2.columns[k])],
                         df2.rows)
    IN  IF ~file.readable THEN NoneDf
        ELSE IF IsEmpty(df) THEN NoneDf
        ELSE IF reread /\ ~file.has_index THEN NoneDf
        ELSE IF Cardinality(ColumnsNamed(df3, part_number)) # 1 THEN NoneDf
        ELSE SomeDf(NormalizePart(df3))

\* load_inventory(), given the data directory as the download left it
load_inventory(dir) ==
    IF target_file(dir) = << >> THEN NoneDf
    ELSE LoadFile(target_file(dir), dir.files[target_file(dir)])

(***************************************************************************)
(* process_emails: the matcher.                                             *)
(***************************************************************************)
MissingStatus == <<"M", "I", "S", "S", "I", "N", "G", " ", "(", "U", "n", "k", "n", "o", "w", "n", " ", "P", "a", "r", "t", ")">>

OutOfStock == <<"O", "U", "T", " ", "O", "F", " ", "S", "T", "O", "C", "K">>

InStock == <<"I", "N", " ", "S", "T", "O", "C", "K">>

LowStock(stock_qty) == <<"L", "O", "W", " ", "S", "T", "O", "C", "K", " ", "(", "H", "a", "v", "e", " ">> \o IntStr(stock_qty) \o <<")">>

\* f"{part} (Matched: {match.iloc[0]['part_number']})"
MatchedLabel(part, actual) == part \o <<" ", "(", "M", "a", "t", "c", "h", "e", "d", ":", " ">> \o actual \o <<")">>

\* df[df['part_number'] == part]: the rows, in load order
ExactRows(df, part) ==
    LET c == CHOOSE i \in ColumnsNamed(df, part_number) : TRUE
    IN  SelectSeq(df.rows, LAMBDA r : r[c].s = part)

\* df[df['part_number'].str.startswith(part, na=False)]
PrefixRows(df, part) ==
    LET c == CHOOSE i \in ColumnsNamed(df, part_number) : TRUE
    IN  SelectSeq(df.rows, LAMBDA r : StartsWith(r[c].s, part))

\* MatchRows but the prefix rows are taken whether or not a row is exact
MatchRows_FirstPrefix(df, part) == PrefixRows(df, part)

\* the match of an item: the exact rows, and the prefix rows when there are none
MatchRows(df, part) ==
    IF ExactRows(df, part) # << >> THEN ExactRows(df, part) ELSE PrefixRows(df, part)

\* int(row['quantity']), 0 when it raises
stock_qty(df, row) ==
    LET cs == ColumnsNamed(df, quantity)
        c == CHOOSE i \in cs : TRUE
    IN  IF Cardinality(cs) = 1 /\ CellIntParses(row[c]) THEN CellIntValue(row[c]) ELSE 0

\* row.get('condition', 'N/A'), 'N/A' for a NaN
RowCondition(df, row) ==
    LET cs == ColumnsNamed(df, condition)
        c == CHOOSE i \in cs : TRUE
    IN  IF cs = {} \/ row[c] = NaN THEN NA ELSE row[c]

Result(part, status, cond, req_qty, stock, remaining) ==
    [part |-> part, status |-> status, condition |-> cond, req_qty |-> req_qty,
     stock_qty |-> stock, remaining |-> remaining]

\* Classify but a stock equal to the request is not enough
Classify_Strict(part, cond, req_qty, stock) ==
    IF stock = 0 THEN Result(part, OutOfStock, cond, req_qty, stock, 0)
    ELSE IF stock > req_qty THEN Result(part, InStock, cond, req_qty, stock, stock - req_qty)
    ELSE Result(part, LowStock(stock), cond, req_qty, stock, 0)

\* Classify but the remaining count of a low stock shows the shortage
Classify_Shortage(part, cond, req_qty, stock) ==
    IF stock = 0 THEN Result(part, OutOfStock, cond, req_qty, stock, 0)
    ELSE IF stock >= req_qty THEN Result(part, InStock, cond, req_qty, stock, stock - req_qty)
    ELSE Result(part, LowStock(stock), cond, req_qty, stock, stock - req_qty)

\* the status and the remaining count of a matched record
Classify(part, cond, req_qty, stock) ==
    IF stock = 0 THEN Result(part, OutOfStock, cond, req_qty, stock, 0)
    ELSE IF stock >= req_qty THEN Result(part, InStock, cond, req_qty, stock, stock - req_qty)
    ELSE Result(part, LowStock(stock), cond, req_qty, stock, 0)

\* the body of the loop over the items: the result of one item
MatchItem(df, item) ==
    LET c == CHOOSE i \in ColumnsNamed(df, part_number) : TRUE
        exact == ExactRows(df, item.part)
        match == MatchRows(df, item.part)
        part == IF exact = << >> /\ match # << >>
                THEN MatchedLabel(item.part, match[1][c].s)
                ELSE item.part
    IN  IF match = << >>
        THEN Result(part, MissingStatus, NA, item.req_qty, 0, 0)
        ELSE Classify(part, RowCondition(df, match[1]), item.req_qty,
                      stock_qty(df, match[1]))

(***************************************************************************)
(* process_emails: the filters on the subject, the report and the fetch.    *)
(***************************************************************************)
InventoryAlert == <<"I", "n", "v", "e", "n", "t", "o", "r", "y", " ", "A", "l", "e", "r", "t">>

CCheck == <<"C", " ", "C", "H", "E", "C", "K">>

AlertPrefix == <<"I", "n", "v", "e", "n", "t", "o", "r", "y", " ", "A", "l", "e", "r", "t", ":", " ">>

\* the report mailed for a message: its recipients, its subject, and the rows
\* and the read method its body shows
Report(recipients, m, rows, method) ==
    [to |-> recipients, subject |-> AlertPrefix \o m.subject, results |-> rows,
     method |-> method, trigger |-> m.subject]

\* the cells of a row of the report, and the labels of its columns
ReportColumns ==
    <<StrCell(<<"P", "a", "r", "t", " ", "N", "u", "m", "b", "e", "r">>),
      StrCell(<<"S", "t", "a", "t", "u", "s">>),
      StrCell(<<"C", "o", "n", "d", "i", "t", "i", "o", "n">>),
      StrCell(<<"R", "e", "q", " ", "Q", "t", "y">>),
      StrCell(<<"I", "n", " ", "S", "t", "o", "c", "k">>),
      StrCell(<<"R", "e", "m", "a", "i", "n", "i", "n", "g">>)>>

ReportRow(row) ==
    <<StrCell(row.part), StrCell(row.status), row.condition,
      IntCell(row.req_qty), IntCell(row.stock_qty), IntCell(row.remaining)>>

\* the lines of text of a sequence of cells
RECURSIVE CellLines(_)
CellLines(cells) ==
    IF cells = << >> THEN << >>
    ELSE CellStr(Head(cells)) \o <<"\n">> \o CellLines(Tail(cells))

RECURSIVE RowLines(_)
RowLines(rows) ==
    IF rows = << >> THEN << >>
    ELSE CellLines(ReportRow(Head(rows))) \o RowLines(Tail(rows))

\* generate_html_report(results, original_subject, method), as a reader of
\* the mail gets it: the table, and the text, the time of the report aside
generate_html_report(rows, original_subject, method) ==
    [empty |-> FALSE,
     tables |-> <<DataFrame(ReportColumns, [i \in 1..Len(rows) |-> ReportRow(rows[i])])>>,
     text |-> <<"I", "n", "v", "e", "n", "t", "o", "r", "y", " ", "C", "h", "e", "c", "k", " ", "R", "e", "p", "o", "r", "t", "\n">>
              \o <<"T", "r", "i", "g", "g", "e", "r", "e", "d", " ", "b", "y", ":", "\n", " ">>
              \o original_subject \o <<"\n">>
              \o <<"R", "e", "a", "d", " ", "M", "e", "t", "h", "o", "d", ":", "\n", " ">>
              \o method \o <<"\n">>
              \o CellLines(ReportColumns) \o RowLines(rows)]

MessageLimit == 25

\* inbox.get_messages(limit=25): the positions of the messages fetched
FetchMessages(box) ==
    [i \in 1..(IF Len(box) < MessageLimit THEN Len(box) ELSE MessageLimit) |-> i]

(***************************************************************************)
(* The inputs.                                                              *)
(***************************************************************************)
\* a labeled part
LinePN == <<"P", "/", "N", ":", " ", "A", "B", "-", "1", "0", "0">>

\* two part-shaped words
LineTwoParts == <<"C", "D", "3", "4", " ", "e", "f", "5", "6", ".">>

\* a quantity label
LineQty3 == <<"Q", "T", "Y", ":", " ", "3">>

\* a quantity label with quantity zero
LineQty0 == <<"Q", "t", "y", ":", " ", "0">>

\* a number and a unit word
LineUnit == <<"2", " ", "E", "A">>

\* a blank line
LineBlank == <<" ">>

\* words of the ignore set only
LineWords == <<"U", "S", "E", "D", " ", "B", "O", "L", "T", " ", "A", "S", "S", "Y">>

\* a header line that holds a quantity label and a part-shaped word
LineHeader == <<"T", "o", ":", " ", "Q", "T", "Y", ":", " ", "7", " ", "X", "Y", "7", "7">>

\* a quantity label behind a labeled part
LineQtyPart == <<"P", "/", "N", ":", " ", "G", "H", "7", "8", " ", "Q", "T", "Y", ":", " ", "4">>

\* a labeled tail number beside a phone number
LineTail == <<"P", "N", ":", " ", "N", "1", "2", "3", "4", " ", "5", "5", "5", "-", "1", "2", "3", "-", "4", "5", "6", "7">>

ScanMenu ==
    {LinePN, LineTwoParts, LineQty3, LineQty0, LineUnit, LineBlank, LineWords, LineHeader,
     LineTail, LineQtyPart}

MaxLines == 3

HashSeeds == {0, 1}

RECURSIVE JoinLines(_)
JoinLines(ls) ==
    IF ls = << >> THEN << >>
    ELSE IF Len(ls) = 1 THEN ls[1]
    ELSE ls[1] \o <<"\n">> \o JoinLines(Tail(ls))

SeqsUpTo(S, n) == UNION {[1..k -> S] : k \in 0..n}

ScanTexts == {JoinLines(ls) : ls \in SeqsUpTo(ScanMenu, MaxLines)}

\* a table with a part-number and a quantity column
TblParts ==
    DataFrame(<<StrCell(<<"P", "a", "r", "t", " ", "N", "u", "m", "b", "e", "r">>), StrCell(<<"Q", "t", "y">>)>>,
              << <<StrCell(<<"X", "Y", "-", "2", "0", "0">>), IntCell(10)>>, <<StrCell(<<" ", "a", "b", "1", "2", " ">>), StrCell(<<"x">>)>> >>)

\* a table whose quantities are zero and negative
TblZero ==
    DataFrame(<<StrCell(<<"P", "N">>), StrCell(<<"Q", "T", "Y">>)>>,
              << <<StrCell(<<"C", "D", "3", "4">>), IntCell(0)>>, <<StrCell(<<"E", "F", "5", "6">>), StrCell(<<"-", "2">>)>> >>)

\* a table without a part-number column, with or without promotion
TblNoParts ==
    DataFrame(<<StrCell(<<"D", "e", "s", "c">>), StrCell(<<"Q", "t", "y">>)>>, << <<StrCell(<<"b", "o", "l", "t">>), IntCell(2)>> >>)

\* a table whose header is its first row
TblHeaderless ==
    DataFrame(<<IntCell(0), IntCell(1)>>,
              << <<StrCell(<<"P", "N">>), StrCell(<<"Q", "T", "Y">>)>>, <<StrCell(<<"G", "H", "7", "8">>), IntCell(4)>> >>)

\* a table with a part-number column and no part in it
TblNoRows ==
    DataFrame(<<StrCell(<<"P", "/", "N">>)>>, << <<NaN>> >>)

\* a table whose part column is named ITEM
TblItem ==
    DataFrame(<<StrCell(<<"I", "t", "e", "m">>), StrCell(<<"R", "e", "q">>)>>, << <<StrCell(<<"J", "K", "9", "0">>), IntCell(2)>> >>)

File(df) == [readable |-> TRUE, df |-> df]

Unreadable == [readable |-> FALSE, df |-> DataFrame(<< >>, << >>)]

Attachment(name, ok, content) == [name |-> name, save_ok |-> ok, content |-> content]

AttParts == Attachment(<<"r", ".", "x", "l", "s", "x">>, TRUE, File(TblParts))

AttZero == Attachment(<<"z", ".", "x", "l", "s", "x">>, TRUE, File(TblZero))

AttNoParts == Attachment(<<"n", ".", "X", "L", "S">>, TRUE, File(TblNoParts))

AttBroken == Attachment(<<"b", ".", "x", "l", "s">>, TRUE, Unreadable)

AttPdf == Attachment(<<"d", ".", "p", "d", "f">>, TRUE, Unreadable)

AttNoRows == Attachment(<<"e", ".", "x", "l", "s", "x">>, TRUE, File(TblNoRows))

AttUnsaved == Attachment(<<"u", ".", "x", "l", "s", "x">>, FALSE, File(TblParts))

AttachmentMenu == {AttParts, AttZero, AttNoParts, AttBroken, AttPdf, AttNoRows, AttUnsaved}

MaxAttachments == 2

Body(tables, txt) == [empty |-> FALSE, tables |-> tables, text |-> txt]

NoBody == [empty |-> TRUE, tables |-> << >>, text |-> << >>]

BodyText == Body(<< >>, <<"P", "/", "N", ":", " ", "A", "B", "-", "1", "0", "0", "\n", "Q", "T", "Y", ":", " ", "3">>)

BodyHello == Body(<< >>, <<"H", "e", "l", "l", "o">>)

BodyTable == Body(<<TblParts>>, <<"X", "Y", "-", "2", "0", "0", "\n", "1", "0">>)

BodySecondTable == Body(<<TblNoParts, TblHeaderless, TblParts>>, <<"G", "H", "7", "8", "\n", "4">>)

BodyNoParts == Body(<<TblNoParts>>, <<"b", "o", "l", "t", " ", "M", "5", "\n", "2">>)

BodyNoRows == Body(<<TblNoRows, TblParts>>, <<"X", "Y", "-", "2", "0", "0", "\n", "1", "0">>)

\* a table whose columns are named Item and Req
BodyItem == Body(<<TblItem>>, <<"I", "t", "e", "m", "\n", "R", "e", "q", "\n", "J", "K", "9", "0", "\n", "2">>)

BodyMenu ==
    {NoBody, BodyText, BodyHello, BodyTable, BodySecondTable, BodyNoParts, BodyNoRows,
     BodyItem}

SubjectMenu == {<<"C", " ", "C", "H", "E", "C", "K">>, <<"R", "E", ":", " ", "C", " ", "C", "H", "E", "C", "K", " ", "Z", "Z", "-", "9">>}

Message(subject, body, atts) ==
    [subject |-> subject, body |-> body, has_attachments |-> atts # << >>,
     attachments |-> atts, is_read |-> FALSE]

ExtractMessages ==
    {Message(s, b, a) : s \in SubjectMenu, b \in BodyMenu,
                        a \in SeqsUpTo(AttachmentMenu, MaxAttachments)}

\* TEMP_DIR as a call may find it: empty, or holding a file an earlier call left
StaleFiles == WriteFile(NoFiles, <<"u", ".", "x", "l", "s", "x">>, File(TblZero))

TempDirs == {NoFiles, StaleFiles}

\* the stock ledger: rows of part number, quantity and condition
GridStock ==
    << <<StrCell(<<"P", "a", "r", "t", "N", "u", "m", "b", "e", "r">>), StrCell(<<"Q", "t", "y">>), StrCell(<<"C", "o", "n", "d", "i", "t", "i", "o", "n">>)>>,
       <<StrCell(<<" ", "a", "b", "1", "2", "x", "9", " ">>), IntCell(5), StrCell(<<"O", "H">>)>>,
       <<StrCell(<<"A", "B", "1", "2">>), IntCell(3), StrCell(<<"N", "E">>)>>,
       <<StrCell(<<"A", "B", "1", "2">>), IntCell(9), StrCell(<<"S", "V">>)>>,
       <<StrCell(<<"E", "F", "5", "Z">>), StrCell(<<"n", "/", "a">>), NaN>>,
       <<StrCell(<<"E", "F", "5">>), IntCell(0 - 1), StrCell(<<"A", "R">>)>>,
       <<StrCell(<<"G", "H", "7">>), IntCell(0), StrCell(<<"N", "S">>)>>,
       <<StrCell(<<"A", "B", "-", "1", "0", "0">>), IntCell(5), StrCell(<<"N", "E">>)>> >>

\* a workbook sheet with a banner row above the header row
GridBanner ==
    << <<StrCell(<<"I", "n", "v", "e", "n", "t", "o", "r", "y", " ", "I", "n", "d", "e", "x">>), NaN, NaN>>,
       <<StrCell(<<"P", "a", "r", "t", "N", "u", "m", "b", "e", "r">>), StrCell(<<"Q", "t", "y">>), StrCell(<<"C", "o", "n", "d", "i", "t", "i", "o", "n">>)>>,
       <<StrCell(<<"A", "B", "1", "2">>), IntCell(0), StrCell(<<"N", "E">>)>>,
       <<StrCell(<<"A", "B", "1", "2", "X", "9">>), StrCell(<<"2">>), NaN>>,
       <<StrCell(<<"X", "Y", "-", "2", "0", "0">>), IntCell(4), StrCell(<<"O", "H">>)>> >>

\* a ledger without a quantity and without a condition column
GridPartsOnly ==
    << <<StrCell(<<"P", "a", "r", "t", "N", "u", "m", "b", "e", "r">>)>>, <<StrCell(<<"A", "B", "1", "2", "X", "9">>)>>, <<StrCell(<<"A", "B", "-", "1", "0", "0">>)>> >>

\* a ledger whose part-number column has another spelling
GridOtherHeader ==
    << <<StrCell(<<"P", "a", "r", "t", " ", "N", "u", "m", "b", "e", "r">>), StrCell(<<"Q", "t", "y">>)>>, <<StrCell(<<"A", "B", "1", "2">>), IntCell(3)>> >>

Ledger(grid) == [readable |-> TRUE, has_index |-> TRUE, grid |-> grid]

Dir(sp, name, file) ==
    [sp_name |-> sp, files |-> [f \in {name} |-> file]]

InvXlsx == <<"i", "n", "v", ".", "x", "l", "s", "x">>

InvXls == <<"i", "n", "v", ".", "x", "l", "s">>

DirEmpty == [sp_name |-> InvXlsx, files |-> [f \in {} |-> Ledger(<< >>)]]

DirCsv == Dir(<< >>, CsvName, Ledger(GridStock))

DirXlsx == Dir(InvXlsx, InvXlsx, Ledger(GridBanner))

DirBoth ==
    [sp_name |-> InvXlsx,
     files |-> [f \in {InvXlsx, CsvName} |->
                  IF f = InvXlsx THEN Ledger(GridPartsOnly) ELSE Ledger(GridStock)]]

DirXls == Dir(InvXls, InvXls, Ledger(GridBanner))

DirNoIndex == Dir(InvXlsx, InvXlsx, [Ledger(GridBanner) EXCEPT !.has_index = FALSE])

DirOtherHeader == Dir(<< >>, CsvName, Ledger(GridOtherHeader))

DirUnreadable == Dir(<< >>, CsvName, [Ledger(GridStock) EXCEPT !.readable = FALSE])

DirHeaderOnly == Dir(<< >>, CsvName, Ledger(<<GridStock[1]>>))

InventoryDirs ==
    {DirEmpty, DirCsv, DirXlsx, DirBoth, DirXls, DirNoIndex, DirOtherHeader,
     DirUnreadable, DirHeaderOnly}

\* the snapshots load_inventory gives for them
Snapshots == {load_inventory(d) : d \in InventoryDirs} \ {NoneDf}

ItemParts == {<<"A", "B", "1", "2">>, <<"A", "B", "1">>, <<"E", "F", "5">>, <<"E", "F">>, <<"G", "H", "7">>, <<"Z", "Z", "9">>}

ItemQtys == {0 - 2, 0, 3, 5}

ItemMenu == {[part |-> p, req_qty |-> q] : p \in ItemParts, q \in ItemQtys}

MaxItems == 2

MsgRequest == Message(<<"C", " ", "C", "H", "E", "C", "K">>, BodyText, << >>)

MsgNothing == Message(<<"C", " ", "C", "H", "E", "C", "K">>, BodyHello, << >>)

MsgAlert == Message(<<"I", "n", "v", "e", "n", "t", "o", "r", "y", " ", "A", "l", "e", "r", "t", ":", " ", "C", " ", "C", "H", "E", "C", "K">>, BodyText, << >>)

MsgOther == Message(<<"F", "Y", "I">>, BodyText, << >>)

MsgSheet == Message(<<"C", " ", "C", "H", "E", "C", "K">>, BodyTable, <<AttNoParts>>)

InboxMenu == {MsgRequest, MsgNothing, MsgAlert, MsgOther, MsgSheet}

MaxInbox == 2

RecipientLists == {<< >>, <<"ops">>}

(***************************************************************************)
(* The state.                                                               *)
(***************************************************************************)
VARIABLES
    hash_seed,            \* the process's string hash seed
    previous,             \* what an earlier call on the same message returned
    temp_files,           \* TEMP_DIR: the files in it, by name
    text,                 \* extract_data_from_text: its argument
    lines,                \* text.splitlines()
    line_no,              \* the position of the loop over the lines
    results,              \* the items emitted so far
    current_block_parts,  \* the parts found since the last quantity line
    scan_pc,              \* "loop" in the loop, "done" after the return
    message,              \* extract_data_from_email: its argument
    att_no,               \* the position of the loop over the attachments
    ext_pc,               \* "attachments", "text", "scanning", "returned", "raised"
    extracted,            \* the items returned
    method,               \* the method label returned
    df,                   \* process_emails: what load_inventory returned
    items,                \* the items of the message being reconciled
    match_results,        \* the results of the items matched so far
    inbox,                \* the monitored mailbox, oldest message first
    messages,             \* the messages the cycle fetched, by position
    msg_no,               \* the position of the loop over the messages
    cycle_pc,             \* "sleep" between cycles; "loop", "extracting",
                          \* "matching" within one
    sent,                 \* the reports mailed, in order
    TARGET_RECIPIENTS     \* the configured recipients

scan_vars == <<text, lines, line_no, results, current_block_parts, scan_pc>>

ext_vars == <<message, att_no, ext_pc, extracted, method>>

match_vars == <<items, match_results>>

cycle_vars == <<inbox, messages, msg_no, cycle_pc, sent, TARGET_RECIPIENTS>>

vars == <<hash_seed, previous, temp_files, df, scan_vars, ext_vars, match_vars, cycle_vars>>

NoMessage == Message(<< >>, NoBody, << >>)

\* no earlier call on the message
NoCall == [called |-> FALSE, items |-> << >>, method |-> << >>]

\* the values of the locals of a function that is not running
ScanIdle ==
    /\ text = << >> /\ lines = << >> /\ line_no = 1
    /\ results = << >> /\ current_block_parts = << >> /\ scan_pc = "idle"

ExtIdle ==
    /\ message = NoMessage /\ att_no = 1
    /\ ext_pc = "idle" /\ extracted = << >> /\ method = << >>

MatchIdle == items = << >> /\ match_results = << >>

CycleIdle ==
    /\ inbox = << >> /\ messages = << >> /\ msg_no = 1 /\ cycle_pc = "idle"
    /\ sent = << >> /\ TARGET_RECIPIENTS = << >>

(***************************************************************************)
(* extract_data_from_text, line by line.                                    *)
(***************************************************************************)
ScanState == [results |-> results, current_block_parts |-> current_block_parts]

\* the call: the locals before the loop
ScanEnter(t) ==
    /\ text' = t
    /\ lines' = splitlines(t)
    /\ line_no' = 1
    /\ results' = << >>
    /\ current_block_parts' = << >>
    /\ scan_pc' = "loop"

ScanInit ==
    /\ hash_seed \in HashSeeds
    /\ previous = NoCall
    /\ text \in ScanTexts
    /\ lines = splitlines(text)
    /\ line_no = 1
    /\ results = << >>
    /\ current_block_parts = << >>
    /\ scan_pc = "loop"
    /\ temp_files = NoFiles /\ df = NoneDf
    /\ ExtIdle /\ MatchIdle /\ CycleIdle

\* one pass of the loop over the lines
ScanStep ==
    /\ scan_pc = "loop"
    /\ line_no <= Len(lines)
    /\ LET st == ScanLine(ScanState, lines[line_no], hash_seed)
       IN  /\ results' = st.results
           /\ current_block_parts' = st.current_block_parts
    /\ line_no' = line_no + 1
    /\ UNCHANGED <<hash_seed, previous, temp_files, df, text, lines, scan_pc>>
    /\ UNCHANGED <<ext_vars, match_vars, cycle_vars>>

\* the cleanup after the last line, and the return
ScanFlush ==
    /\ scan_pc = "loop"
    /\ line_no > Len(lines)
    /\ results' = FlushItems(ScanState)
    /\ scan_pc' = "done"
    /\ UNCHANGED <<hash_seed, previous, temp_files, df, text, lines, line_no, current_block_parts>>
    /\ UNCHANGED <<ext_vars, match_vars, cycle_vars>>

ScanNext == ScanStep \/ ScanFlush

SpecScan == ScanInit /\ [][ScanNext]_vars

(***************************************************************************)
(* extract_data_from_email, strategy by strategy.                           *)
(***************************************************************************)
\* the call: the locals before the first strategy
ExtEnter(m) ==
    /\ message' = m
    /\ att_no' = 1
    /\ ext_pc' = "attachments"
    /\ extracted' = << >>
    /\ method' = << >>

ExtInit ==
    /\ hash_seed \in HashSeeds
    /\ previous = NoCall
    /\ temp_files \in TempDirs
    /\ message \in ExtractMessages
    /\ att_no = 1
    /\ ext_pc = "attachments"
    /\ extracted = << >>
    /\ method = << >>
    /\ df = NoneDf
    /\ ScanIdle /\ MatchIdle /\ CycleIdle

InAttachments ==
    /\ ext_pc = "attachments"
    /\ message.has_attachments
    /\ att_no <= Len(message.attachments)

\* where an attempt r leaves the call: returned, raised, or at the next attempt
ExtGoOn(r, next_pc, next_att) ==
    /\ temp_files' = r.temp_files
    /\ ext_pc' = IF r.outcome = "return" THEN "returned"
                 ELSE IF r.outcome = "raised" THEN "raised"
                 ELSE next_pc
    /\ att_no' = IF r.outcome = "none" THEN next_att ELSE att_no
    /\ extracted' = IF r.outcome = "return" THEN r.items ELSE extracted
    /\ method' = IF r.outcome = "return" THEN r.method ELSE method
    /\ UNCHANGED <<hash_seed, previous, df, message, scan_vars, match_vars, cycle_vars>>

\* one pass of the loop over the attachments
ExtAttachment ==
    /\ InAttachments
    /\ ExtGoOn(TryAttachment(message.attachments[att_no], temp_files),
               "attachments", att_no + 1)

\* the HTML strategy, after the attachments
ExtHtml ==
    /\ ext_pc = "attachments"
    /\ ~InAttachments
    /\ ExtGoOn(TryHtml(message.body, temp_files), "text", att_no)

\* the text scanner is called on the subject and the text of the body
ExtText ==
    /\ ext_pc = "text"
    /\ ScanEnter(full_text(message))
    /\ ext_pc' = "scanning"
    /\ UNCHANGED <<hash_seed, previous, temp_files, df, message, att_no, extracted, method>>
    /\ UNCHANGED <<match_vars, cycle_vars>>

\* return extract_data_from_text(full_text), "Text Scanner"
ExtReturn ==
    /\ ext_pc = "scanning"
    /\ scan_pc = "done"
    /\ extracted' = results
    /\ method' = TextLabel
    /\ ext_pc' = "returned"
    /\ UNCHANGED <<hash_seed, previous, temp_files, df, message, att_no>>
    /\ UNCHANGED <<scan_vars, match_vars, cycle_vars>>

\* the caller calls again on the same message, with TEMP_DIR as the first
\* call left it
ExtAgain ==
    /\ ext_pc = "returned"
    /\ ~previous.called
    /\ previous' = [called |-> TRUE, items |-> extracted, method |-> method]
    /\ ExtEnter(message)
    /\ text' = << >> /\ lines' = << >> /\ line_no' = 1
    /\ results' = << >> /\ current_block_parts' = << >> /\ scan_pc' = "idle"
    /\ UNCHANGED <<hash_seed, temp_files, df, match_vars, cycle_vars>>

ExtNext ==
    \/ ExtAttachment \/ ExtHtml \/ ExtText \/ ScanStep \/ ScanFlush \/ ExtReturn
    \/ ExtAgain

SpecExtract == ExtInit /\ [][ExtNext]_vars

(***************************************************************************)
(* The matcher, item by item, against a loaded snapshot.                    *)
(***************************************************************************)
MatchInit ==
    /\ hash_seed = 0
    /\ previous = NoCall
    /\ temp_files = NoFiles
    /\ df \in Snapshots
    /\ items \in SeqsUpTo(ItemMenu, MaxItems)
    /\ match_results = << >>
    /\ ScanIdle /\ ExtIdle /\ CycleIdle

\* MatchStep but the result is put at the head of the list
MatchStep_Prepends ==
    /\ Len(match_results) < Len(items)
    /\ match_results' =
           <<MatchItem(df.table, items[Len(match_results) + 1])>> \o match_results
    /\ UNCHANGED <<hash_seed, previous, temp_files, df, items, scan_vars, ext_vars, cycle_vars>>

\* one pass of the loop over the items
MatchStep ==
    /\ Len(match_results) < Len(items)
    /\ match_results' =
           Append(match_results, MatchItem(df.table, items[Len(match_results) + 1]))
    /\ UNCHANGED <<hash_seed, previous, temp_files, df, items, scan_vars, ext_vars, cycle_vars>>

MatchNext == MatchStep

SpecMatch == MatchInit /\ [][MatchNext]_vars

(***************************************************************************)
(* process_emails, cycle after cycle.                                       *)
(***************************************************************************)
Init ==
    /\ hash_seed \in HashSeeds
    /\ previous = NoCall
    /\ temp_files = NoFiles
    /\ df = NoneDf
    /\ inbox = << >>
    /\ messages = << >>
    /\ msg_no = 1
    /\ cycle_pc = "sleep"
    /\ sent = << >>
    /\ TARGET_RECIPIENTS \in RecipientLists
    /\ ScanIdle /\ ExtIdle /\ MatchIdle

\* a message arrives in the monitored mailbox
Arrive ==
    /\ cycle_pc # "idle"
    /\ Len(inbox) < MaxInbox
    /\ \E m \in InboxMenu : inbox' = Append(inbox, m)
    /\ UNCHANGED <<hash_seed, previous, temp_files, df, messages, msg_no, cycle_pc, sent,
                   TARGET_RECIPIENTS, scan_vars, ext_vars, match_vars>>

\* a report that was mailed arrives in the monitored mailbox, which is
\* among its recipients
Deliver ==
    /\ cycle_pc # "idle"
    /\ Len(inbox) < MaxInbox
    /\ \E i \in 1..Len(sent) :
          inbox' = Append(inbox,
                          Message(sent[i].subject,
                                  generate_html_report(sent[i].results, sent[i].trigger,
                                                       sent[i].method),
                                  << >>))
    /\ UNCHANGED <<hash_seed, previous, temp_files, df, messages, msg_no, cycle_pc, sent,
                   TARGET_RECIPIENTS, scan_vars, ext_vars, match_vars>>

\* process_emails up to the loop: it returns when the account does not
\* authenticate; else it loads the inventory from the data directory as the
\* download left it, and returns when the messages cannot be fetched
CycleStart ==
    /\ cycle_pc = "sleep"
    /\ \E authenticated \in BOOLEAN, fetched \in BOOLEAN, dir \in InventoryDirs :
          /\ df' = IF authenticated THEN load_inventory(dir) ELSE df
          /\ messages' = IF authenticated /\ fetched THEN FetchMessages(inbox) ELSE messages
          /\ msg_no' = IF authenticated /\ fetched THEN 1 ELSE msg_no
          /\ cycle_pc' = IF authenticated /\ fetched THEN "loop" ELSE "sleep"
    /\ UNCHANGED <<hash_seed, previous, temp_files, inbox, sent, TARGET_RECIPIENTS,
                   scan_vars, ext_vars, match_vars>>

\* the message the loop is at
Current == inbox[messages[msg_no]]

\* message.mark_as_read()
MarkCurrent(read) == inbox' = [inbox EXCEPT ![messages[msg_no]].is_read = read]

\* IsRequest but a subject that holds 'Inventory Alert' is not passed over
IsRequest_AlertsToo(m) ==
    /\ ~m.is_read
    /\ Contains(m.subject, CCheck)

\* an unread message whose subject holds 'C CHECK' and not 'Inventory Alert'
IsRequest(m) ==
    /\ ~m.is_read
    /\ ~Contains(m.subject, InventoryAlert)
    /\ Contains(m.subject, CCheck)

InLoop == cycle_pc = "loop" /\ msg_no <= Len(messages)

\* the locals of the loop body go out of scope
EndBody ==
    /\ msg_no' = msg_no + 1
    /\ cycle_pc' = "loop"
    /\ text' = << >> /\ lines' = << >> /\ line_no' = 1
    /\ results' = << >> /\ current_block_parts' = << >> /\ scan_pc' = "idle"
    /\ message' = NoMessage /\ att_no' = 1
    /\ ext_pc' = "idle" /\ extracted' = << >> /\ method' = << >>
    /\ items' = << >> /\ match_results' = << >>

\* the loop passes a message that is no request: a read one, an alert (which
\* it marks as read), or one without 'C CHECK' in its subject
SkipMessage ==
    /\ InLoop
    /\ ~IsRequest(Current)
    /\ MarkCurrent(Current.is_read \/ Contains(Current.subject, InventoryAlert))
    /\ EndBody
    /\ UNCHANGED <<hash_seed, previous, temp_files, df, messages, sent, TARGET_RECIPIENTS>>

\* items, method = extract_data_from_email(message): the call
ExtractMessage ==
    /\ InLoop
    /\ IsRequest(Current)
    /\ ExtEnter(Current)
    /\ cycle_pc' = "extracting"
    /\ UNCHANGED <<hash_seed, previous, temp_files, df, inbox, messages, msg_no, sent,
                   TARGET_RECIPIENTS, scan_vars, match_vars>>

\* after the call: a message without items is marked as read and passed
NoItems ==
    /\ cycle_pc = "extracting"
    /\ ext_pc = "returned"
    /\ extracted = << >>
    /\ MarkCurrent(TRUE)
    /\ EndBody
    /\ UNCHANGED <<hash_seed, previous, temp_files, df, messages, sent, TARGET_RECIPIENTS>>

\* NoInventory but the message is marked as read before the snapshot is looked at
NoInventory_MarksRead ==
    /\ cycle_pc = "extracting"
    /\ ext_pc = "returned"
    /\ extracted # << >>
    /\ df.is_none
    /\ MarkCurrent(TRUE)
    /\ EndBody
    /\ UNCHANGED <<hash_seed, previous, temp_files, df, messages, sent, TARGET_RECIPIENTS>>

\* if df is None: continue
NoInventory ==
    /\ cycle_pc = "extracting"
    /\ ext_pc = "returned"
    /\ extracted # << >>
    /\ df.is_none
    /\ EndBody
    /\ UNCHANGED <<hash_seed, previous, temp_files, df, inbox, messages, sent, TARGET_RECIPIENTS>>

\* the loop over the items begins
BeginMatch ==
    /\ cycle_pc = "extracting"
    /\ ext_pc = "returned"
    /\ extracted # << >>
    /\ ~df.is_none
    /\ items' = extracted
    /\ match_results' = << >>
    /\ cycle_pc' = "matching"
    /\ UNCHANGED <<hash_seed, previous, temp_files, df, inbox, messages, msg_no, sent,
                   TARGET_RECIPIENTS, scan_vars, ext_vars>>

\* SendReport but the message is not marked as read
SendReport_LeavesUnread ==
    /\ cycle_pc = "matching"
    /\ Len(match_results) = Len(items)
    /\ sent' = IF TARGET_RECIPIENTS # << >>
               THEN Append(sent, Report(TARGET_RECIPIENTS, Current, match_results, method))
               ELSE sent
    /\ EndBody
    /\ UNCHANGED <<hash_seed, previous, temp_files, df, inbox, messages, TARGET_RECIPIENTS>>

\* after the loop over the items: the report is mailed when recipients are
\* configured, and the message is marked as read
SendReport ==
    /\ cycle_pc = "matching"
    /\ Len(match_results) = Len(items)
    /\ sent' = IF TARGET_RECIPIENTS # << >>
               THEN Append(sent, Report(TARGET_RECIPIENTS, Current, match_results, method))
               ELSE sent
    /\ MarkCurrent(TRUE)
    /\ EndBody
    /\ UNCHANGED <<hash_seed, previous, temp_files, df, messages, TARGET_RECIPIENTS>>

\* the loop ends; the process sleeps until the next cycle
CycleEnd ==
    /\ cycle_pc = "loop"
    /\ msg_no > Len(messages)
    /\ cycle_pc' = "sleep"
    /\ UNCHANGED <<hash_seed, previous, temp_files, df, inbox, messages, msg_no, sent,
                   TARGET_RECIPIENTS, scan_vars, ext_vars, match_vars>>

Next ==
    \/ Arrive \/ Deliver \/ CycleStart \/ SkipMessage \/ ExtractMessage
    \/ ExtAttachment \/ ExtHtml \/ ExtText \/ ScanStep \/ ScanFlush \/ ExtReturn
    \/ NoItems \/ NoInventory \/ BeginMatch \/ MatchStep \/ SendReport \/ CycleEnd

Spec == Init /\ [][Next]_vars

(***************************************************************************)
(* The claims about extract_data_from_email, checked under SpecExtract.     *)
(***************************************************************************)
\* the attachments the loop has finished with
Processed(i) ==
    /\ ext_pc # "idle"
    /\ message.has_attachments
    /\ i <= Len(message.attachments)
    /\ \/ i < att_no
       \/ i = att_no /\ ext_pc \in {"returned", "raised"}

\* C1: once the processing of a spreadsheet attachment that was saved to
\* TEMP_DIR has ended, on whichever path, its saved copy is no longer there.
C1_TempCopyDeleted ==
    \A i \in 1..Len(message.attachments) :
        (/\ Processed(i)
         /\ IsSpreadsheetName(message.attachments[i].name)
         /\ message.attachments[i].save_ok)
        => message.attachments[i].name \notin DOMAIN temp_files

\* C2: every item a strategy produces has a quantity of at least 1.
C2_QuantityAtLeastOne ==
    /\ \A i \in 1..Len(results) : results[i].req_qty >= 1
    /\ \A i \in 1..Len(extracted) : extracted[i].req_qty >= 1

\* the table pd.read_excel gives for the attachment, when it gives one: the file
\* at the save path holds what was saved, or what was there when nothing was
SavedSheet(att) ==
    IF att.save_ok THEN att.content
    ELSE IF att.name \in DOMAIN temp_files THEN temp_files[att.name]
    ELSE Unreadable

\* the attachment is a spreadsheet whose part-number column resolves
AttachmentWins(att) ==
    /\ IsSpreadsheetName(att.name)
    /\ SavedSheet(att).readable
    /\ find_column_by_name(SavedSheet(att).df, ExcelPartKeywords) # 0

AttachmentItems(att) ==
    ExtractRows(SavedSheet(att).df,
                find_column_by_name(SavedSheet(att).df, ExcelPartKeywords),
                find_column_by_name(SavedSheet(att).df, ExcelQtyKeywords))

\* the part-number column of the table resolves, directly or after promotion
TableWins(t) ==
    \/ find_column_by_name(t, HtmlPartKeywords) # 0
    \/ ~IsEmpty(t) /\ find_column_by_name(Promote(t), HtmlPartKeywords) # 0

WinningTables == {k \in 1..Len(message.body.tables) : TableWins(message.body.tables[k])}

Untouched == extracted' = extracted /\ method' = method

\* C3: the strategies are tried in the order attachments, HTML tables, text
\* scan; the first attachment, else the first table, whose part-number column
\* resolves is returned under its own label, also when it yields no item; a
\* later strategy is reached only when no earlier one won; the text scan
\* returns the scan of the subject and the body text; nothing is merged.
C3_Step ==
    /\ InAttachments =>
          LET att == message.attachments[att_no]
          IN  IF AttachmentWins(att)
              THEN /\ ext_pc' = "returned"
                   /\ method' = ExcelLabel(att.name)
                   /\ extracted' = AttachmentItems(att)
              ELSE /\ ext_pc' = "attachments" /\ att_no' = att_no + 1 /\ Untouched
    /\ (ext_pc = "attachments" /\ ~InAttachments) =>
          IF ~message.body.empty /\ WinningTables # {}
          THEN /\ ext_pc' = "returned"
               /\ method' = HtmlLabel
               /\ extracted' = ReadTable(message.body.tables[SetMin(WinningTables)]).items
          ELSE /\ ext_pc' = "text" /\ Untouched
    /\ ext_pc = "text" =>
          /\ ext_pc' = "scanning" /\ Untouched
          /\ text' = message.subject \o <<"\n">> \o
                     (IF message.body.empty THEN << >> ELSE message.body.text)
    /\ ext_pc = "scanning" =>
          \/ ext_pc' = "scanning" /\ Untouched
          \/ ext_pc' = "returned" /\ scan_pc = "done"
             /\ method' = TextLabel /\ extracted' = results
    /\ ext_pc = "returned" =>
          \/ ext_pc' = "returned" /\ Untouched
          \/ ext_pc' = "attachments" /\ att_no' = 1 /\ previous' # previous

\* C3: every step of the call follows the priority chain: attachments, then
\* HTML tables, then the text scan, one strategy returned under its own label.
C3_PriorityChain == [][C3_Step]_vars

\* an HTML table without items was returned although the message carries a
\* spreadsheet attachment, which did not resolve
C3_Witness ==
    /\ ext_pc = "returned"
    /\ method = HtmlLabel
    /\ extracted = << >>
    /\ \E i \in 1..Len(message.attachments) :
          IsSpreadsheetName(message.attachments[i].name)

\* the call has not raised, it is not stuck before its return, and what it
\* returns is a list under one of the three labels
C8_State ==
    /\ ext_pc # "raised"
    /\ ext_pc = "scanning" =>
          \/ scan_pc = "loop" /\ line_no <= Len(lines) + 1
          \/ scan_pc = "done"
    /\ ext_pc = "returned" =>
          /\ extracted \in Seq({extracted[i] : i \in 1..Len(extracted)})
          /\ \/ method = HtmlLabel
             \/ method = TextLabel
             \/ \E i \in 1..Len(message.attachments) :
                   method = ExcelLabel(message.attachments[i].name)

\* a read that raises is passed over: the loop goes to the next attachment,
\* the HTML strategy gives way to the text scan
C8_Step ==
    /\ (InAttachments /\
        ReadAttachment(message.attachments[att_no], temp_files).outcome = "raised")
          => ext_pc' = "attachments" /\ att_no' = att_no + 1 /\ Untouched
    /\ (ext_pc = "attachments" /\ ~InAttachments /\
        ReadHtml(message.body, temp_files).outcome = "raised")
          => ext_pc' = "text" /\ Untouched

\* C8: the call never raises and returns a list under one of the three
\* labels: a spreadsheet that cannot be read and a body in which no table can
\* be parsed are caught, count as a strategy that was not satisfied, and the
\* next strategy is tried.
C8_NeverRaises == [](C8_State) /\ [][C8_Step]_vars

\* the text scan returned an empty list after an unreadable spreadsheet and a
\* body in which pd.read_html found no table
C8_Witness ==
    /\ ext_pc = "returned"
    /\ method = TextLabel
    /\ extracted = << >>
    /\ ~message.body.empty /\ message.body.tables = << >>
    /\ \E i \in 1..Len(message.attachments) : message.attachments[i] = AttBroken

(***************************************************************************)
(* The claims about the matcher, checked under SpecMatch.                   *)
(***************************************************************************)
PartColumn == CHOOSE c \in ColumnsNamed(df.table, part_number) : TRUE

\* the positions, in load order, of the records whose part number is the part
ExactAt(part) ==
    {k \in 1..Len(df.table.rows) : df.table.rows[k][PartColumn].s = part}

\* the positions of the records whose part number begins with the part
PrefixAt(part) ==
    {k \in 1..Len(df.table.rows) : StartsWith(df.table.rows[k][PartColumn].s, part)}

\* the position of the record an item is reconciled with, 0 when there is none
MatchedAt(part) ==
    IF ExactAt(part) # {} THEN SetMin(ExactAt(part))
    ELSE IF PrefixAt(part) # {} THEN SetMin(PrefixAt(part))
    ELSE 0

StockAt(k) == stock_qty(df.table, df.table.rows[k])

C5_RemainingNotNegative ==
    \A i \in 1..Len(match_results) : match_results[i].remaining >= 0

\* a request above a negative stock, and a negative request
C5_Witness ==
    /\ \E i \in 1..Len(match_results) :
          /\ match_results[i].stock_qty < 0
          /\ match_results[i].req_qty > match_results[i].stock_qty
    /\ \E i \in 1..Len(match_results) : match_results[i].req_qty < 0

\* C6: an item is reconciled with the first record, in load order, whose part
\* number equals its part, and is shown under its own part number; only when
\* there is none, with the first record whose part number begins with its
\* part, and is shown as "<part> (Matched: <part number of the record>)"; the
\* condition, the stock, the status and the remaining count are those of
\* that record.
C6_ExactThenPrefix ==
    \A i \in 1..Len(match_results) :
        LET r == match_results[i]
            part == items[i].part
            k == MatchedAt(part)
            row == df.table.rows[k]
        IN  k # 0 =>
              /\ r.part = IF ExactAt(part) # {} THEN part
                          ELSE part \o <<" ", "(", "M", "a", "t", "c", "h", "e", "d", ":", " ">>
                                    \o row[PartColumn].s \o <<")">>
              /\ r = Classify(r.part, RowCondition(df.table, row),
                              items[i].req_qty, StockAt(k))

\* an item with an exact record that a longer part number precedes, and an
\* item that only a prefix match reconciles
C6_Witness ==
    /\ \E i \in 1..Len(match_results) :
          /\ ExactAt(items[i].part) # {}
          /\ SetMin(PrefixAt(items[i].part)) < SetMin(ExactAt(items[i].part))
    /\ \E i \in 1..Len(match_results) :
          /\ ExactAt(items[i].part) = {}
          /\ Cardinality(PrefixAt(items[i].part)) > 1
          /\ match_results[i].part # items[i].part

(***************************************************************************)
(* The claim about a cycle without a snapshot, checked under Spec.          *)
(***************************************************************************)
\* the loop body is at a message from which items were extracted
ItemsExtracted == cycle_pc = "extracting" /\ ext_pc = "returned" /\ extracted # << >>

\* C7: in a cycle in which load_inventory gave no snapshot no report is sent
\* and no result is produced, and no message is marked as read but an alert
\* and a message without items: a message from which items were extracted is
\* left unread; in a cycle with a snapshot, such a message is reconciled.
C7_Step ==
    /\ (cycle_pc \in {"loop", "extracting", "matching"} /\ df.is_none) =>
          /\ sent' = sent
          /\ match_results' = << >>
          /\ cycle_pc' # "matching"
          /\ ItemsExtracted => ~inbox'[messages[msg_no]].is_read
          /\ \A k \in 1..Len(inbox) :
                (~inbox[k].is_read /\ inbox'[k].is_read) =>
                   /\ k = messages[msg_no]
                   /\ \/ Contains(inbox[k].subject, InventoryAlert)
                      \/ cycle_pc = "extracting" /\ extracted = << >>
    /\ (ItemsExtracted /\ ~df.is_none /\ cycle_pc' # cycle_pc) =>
          cycle_pc' = "matching" /\ items' = extracted

\* C7: every step of a cycle without a snapshot sends nothing, produces no
\* result and leaves a message with items unread.
C7_NoSnapshotNoReport == [][C7_Step]_vars

\* the loop has passed a request with items, which is still unread, in a cycle
\* without a snapshot
C7_Witness ==
    /\ df.is_none
    /\ cycle_pc = "loop"
    /\ msg_no = 2
    /\ inbox[messages[1]] = MsgRequest
    /\ sent = << >>

(***************************************************************************)
(* The claims about extract_data_from_text, checked under SpecScan.         *)
(***************************************************************************)
CleanLine(k) == Strip(lines[k], Whitespace)

\* the line takes the quantity branch of the loop
IsQuantityLine(k) ==
    /\ CleanLine(k) # << >>
    /\ ~IsHeaderLine(CleanLine(k))
    /\ qty_regex(CleanLine(k)) # << >>

\* the line is scanned for parts
IsPartLine(k) ==
    /\ CleanLine(k) # << >>
    /\ ~IsHeaderLine(CleanLine(k))
    /\ qty_regex(CleanLine(k)) = << >>

\* C9: the pass over a quantity line with value q appends to the results one
\* item (P, q) for every pending part P, in their order, and nothing else,
\* and leaves the pending block empty; with an empty block it emits nothing.
C9_Step ==
    (scan_pc = "loop" /\ line_no <= Len(lines) /\ line_no' = line_no + 1
     /\ IsQuantityLine(line_no)) =>
        LET q == DigitsValue(qty_regex(CleanLine(line_no)))
            n == Len(current_block_parts)
        IN  /\ Len(results') = Len(results) + n
            /\ \A i \in 1..Len(results) : results'[i] = results[i]
            /\ \A i \in 1..n :
                  results'[Len(results) + i] = [part |-> current_block_parts[i], req_qty |-> q]
            /\ current_block_parts' = << >>

\* C9: every pass over a quantity line fans its quantity out to the pending
\* parts and clears the block.
C9_QuantityFanOut == [][C9_Step]_vars

\* a quantity line has just given its quantity to two pending parts
C9_Witness ==
    /\ scan_pc = "loop"
    /\ line_no > 1
    /\ IsQuantityLine(line_no - 1)
    /\ current_block_parts = << >>
    /\ Len(results) >= 2
    /\ results[Len(results)].part # results[Len(results) - 1].part
    /\ results[Len(results)].req_qty = results[Len(results) - 1].req_qty

\* the last quantity line of the text, 0 when there is none
LastQuantityLine == SetMax({0} \cup {k \in 1..Len(lines) : IsQuantityLine(k)})

\* the lines scanned for parts that no quantity line follows
TrailingLines == {k \in (LastQuantityLine + 1)..Len(lines) : IsPartLine(k)}

\* C10: when the scanner has returned, every part found on a line that no
\* quantity line follows is among the items emitted by the final cleanup, with
\* the quantity 1, and these items all have the quantity 1.
C10_DefaultQuantity ==
    scan_pc = "done" =>
        LET flushed == {i \in 1..Len(results) : i > Len(results) - Len(current_block_parts)}
        IN  /\ Cardinality(flushed) = Len(current_block_parts)
            /\ \A k \in TrailingLines : \A p \in line_parts(CleanLine(k)) :
                  \E i \in flushed : results[i] = [part |-> p, req_qty |-> 1]
            /\ \A i \in flushed : results[i].req_qty = 1
            /\ (\E k \in TrailingLines : line_parts(CleanLine(k)) # {}) => flushed # {}

\* the text has parts before its last quantity line and parts after it
C10_Witness ==
    /\ scan_pc = "done"
    /\ LastQuantityLine > 1
    /\ \E k \in TrailingLines : Cardinality(line_parts(CleanLine(k))) > 1
    /\ Len(results) > Len(current_block_parts)
    /\ results[1].req_qty # 1

(***************************************************************************)
(* Further claims about extract_data_from_text, checked under SpecScan.     *)
(***************************************************************************)
\* the part has one of the four rejected shapes
RejectedShape(part) ==
    IsPhone(part) \/ IsDate(part) \/ IsTailNumber(part) \/ IsOrdinal(part)

\* C11: no item the scanner emits has a phone number, a date, a tail number
\* or an ordinal as its part, whatever else is on the line.
C11_ShapesRejected ==
    \A i \in 1..Len(results) : ~RejectedShape(results[i].part)

ShowsPart(shown, part) ==
    \/ shown = part
    \/ /\ StartsWith(shown, part \o <<" ", "(", "M", "a", "t", "c", "h", "e", "d", ":", " ">>)
       /\ EndsWith(shown, <<")">>)

\* the results so far are those of the first items, one each, in their order
C13_State ==
    /\ Len(match_results) <= Len(items)
    /\ \A i \in 1..Len(match_results) :
          /\ i <= Len(items)
          /\ match_results[i].req_qty = items[i].req_qty
          /\ ShowsPart(match_results[i].part, items[i].part)

\* a pass of the loop adds one result, behind the others
C13_Step ==
    /\ Len(match_results') = Len(match_results) + 1
    /\ \A i \in 1..Len(match_results) : match_results'[i] = match_results[i]

\* C13: reconciling an item list gives one result per item, in item order:
\* the i-th result has the quantity of the i-th item and shows its part, and
\* the loop ends with as many results as items.
C13_OneResultPerItem == [](C13_State) /\ [][C13_Step]_vars

\* two different items have their results, one of them under an annotation
C13_Witness ==
    /\ Len(items) = 2
    /\ Len(match_results) = 2
    /\ items[1] # items[2]
    /\ match_results[1].part # items[1].part
    /\ match_results[2].part = items[2].part

(***************************************************************************)
(* The claim about the column keywords, checked under SpecExtract.          *)
(***************************************************************************)
PartCandidates ==
    << <<"P", "/", "N">>, <<"P", "N">>, <<"P", "A", "R", "T">>,
       <<"P", "A", "R", "T", " ", "N", "U", "M", "B", "E", "R">>, <<"I", "T", "E", "M">> >>

QuantityCandidates ==
    << <<"Q", "T", "Y">>, <<"Q", "U", "A", "N", "T", "I", "T", "Y">>, <<"R", "E", "Q">>,
       <<"Q", "T", "Y", " ", "R", "E", "Q">> >>

\* the columns of the table that the candidate names, case and margins aside
ColumnsOf(t, candidate) ==
    {j \in 1..Len(t.columns) :
        Upper(Strip(CellStr(t.columns[j]), Whitespace)) = candidate}

\* the column the earliest candidate that names one stands for, 0 when none does
Resolved(t, candidates) ==
    LET hits == {k \in 1..Len(candidates) : ColumnsOf(t, candidates[k]) # {}}
    IN  IF hits = {} THEN 0 ELSE SetMax(ColumnsOf(t, candidates[SetMin(hits)]))

\* the items of a table under the candidates of the claim
CandidateRows(t) ==
    ExtractRows(t, Resolved(t, PartCandidates), Resolved(t, QuantityCandidates))

\* the table as the HTML strategy takes it: as it is, or with its first row as header
Taken(t) ==
    IF Resolved(t, PartCandidates) = 0 /\ ~IsEmpty(t) THEN Promote(t) ELSE t

\* the tables of the body that are not rejected
Accepted ==
    IF message.body.empty THEN {}
    ELSE {k \in 1..Len(message.body.tables) :
             Resolved(Taken(message.body.tables[k]), PartCandidates) # 0}

\* the saved spreadsheet attachments, up to position n, that are not rejected
AcceptedSheets(n) ==
    {i \in 1..n :
        /\ i <= Len(message.attachments)
        /\ IsSpreadsheetName(message.attachments[i].name)
        /\ message.attachments[i].save_ok
        /\ message.attachments[i].content.readable
        /\ Resolved(message.attachments[i].content.df, PartCandidates) # 0}

\* C14: spreadsheet attachments and HTML tables alike are resolved against
\* the part candidates P/N, PN, PART, PART NUMBER, ITEM and the quantity
\* candidates QTY, QUANTITY, REQ, QTY REQ, the earliest candidate winning; a
\* table is rejected only when no part candidate names one of its columns.
C14_ColumnCandidates ==
    /\ (ext_pc \in {"text", "scanning"} \/ (ext_pc = "returned" /\ method = TextLabel)) =>
          Accepted = {} /\ AcceptedSheets(Len(message.attachments)) = {}
    /\ (ext_pc = "returned" /\ method = HtmlLabel) =>
          /\ Accepted # {}
          /\ AcceptedSheets(Len(message.attachments)) = {}
          /\ extracted = CandidateRows(Taken(message.body.tables[SetMin(Accepted)]))
    /\ (ext_pc = "returned" /\ method \notin {HtmlLabel, TextLabel}
        /\ message.attachments[att_no].save_ok) =>
          /\ AcceptedSheets(att_no) = {att_no}
          /\ extracted = CandidateRows(message.attachments[att_no].content.df)

(***************************************************************************)
(* The claims about the lines of a text, checked under SpecScan.            *)
(***************************************************************************)
StructuralLabels ==
    {<<"A", "I", "R", "C", "R", "A", "F", "T", ":">>, <<"S", "U", "B", "J", "E", "C", "T", ":">>,
     <<"F", "R", "O", "M", ":">>, <<"T", "O", ":">>, <<"S", "E", "N", "T", ":">>,
     <<"A", "D", "D", "R", "E", "S", "S", ":">>, <<"S", "H", "I", "P", " ", "T", "O", ":">>}

\* the line begins with a structural label, case and margins aside
BeginsWithLabel(k) == \E h \in StructuralLabels : StartsWith(Upper(CleanLine(k)), h)

\* the loop passes line k
PassesLine(k) == scan_pc = "loop" /\ line_no = k /\ k <= Len(lines) /\ line_no' = k + 1

C15_Step ==
    (PassesLine(line_no) /\ BeginsWithLabel(line_no)) =>
        results' = results /\ current_block_parts' = current_block_parts

\* C15: the pass over a line that begins with a structural label emits no item
\* and leaves the pending block as it is, whatever the rest of the line holds.
C15_HeaderLineSkipped == [][C15_Step]_vars

\* a labeled line with a quantity and a part-shaped word has been passed
\* while parts were pending, and they still are
C15_Witness ==
    /\ scan_pc = "loop"
    /\ line_no > 1
    /\ BeginsWithLabel(line_no - 1)
    /\ qty_regex(CleanLine(line_no - 1)) # << >>
    /\ line_parts(CleanLine(line_no - 1)) # {}
    /\ current_block_parts # << >>

\* every part emitted or pending was found on a line scanned for parts
C16_State ==
    /\ \A i \in 1..Len(results) :
          \E k \in 1..Len(lines) : IsPartLine(k) /\ results[i].part \in line_parts(CleanLine(k))
    /\ \A j \in 1..Len(current_block_parts) :
          \E k \in 1..Len(lines) :
             IsPartLine(k) /\ current_block_parts[j] \in line_parts(CleanLine(k))

\* the pass over a quantity line emits parts that were pending and leaves
\* nothing pending
C16_Step ==
    (PassesLine(line_no) /\ IsQuantityLine(line_no)) =>
        /\ current_block_parts' = << >>
        /\ Len(results') >= Len(results)
        /\ \A i \in (Len(results) + 1)..Len(results') :
              \E j \in 1..Len(current_block_parts) :
                 results'[i].part = current_block_parts[j]

\* C16: a line that matches the quantity pattern contributes no part: what is
\* on it is neither added to the pending block nor emitted, and its quantity
\* goes to the parts pending since the previous quantity line only.
C16_QuantityLineNoParts == [](C16_State) /\ [][C16_Step]_vars

\* a quantity line with a labeled part on it has given its quantity to
\* pending parts, and its own part is in no item
C16_Witness ==
    /\ scan_pc = "done"
    /\ results # << >>
    /\ \E k \in 2..Len(lines) :
          /\ IsQuantityLine(k)
          /\ line_parts(CleanLine(k)) # {}
          /\ \A i \in 1..Len(results) : results[i].part \notin line_parts(CleanLine(k))

\* the candidates of line k, none for a line that is not scanned for parts
Candidates(k) == IF IsPartLine(k) THEN line_parts(CleanLine(k)) ELSE {}

\* the number of candidates of the lines before line k
RECURSIVE CandidatesBefore(_)
CandidatesBefore(k) ==
    IF k <= 1 THEN 0
    ELSE CandidatesBefore(k - 1) + Cardinality(Candidates(k - 1))

\* the quantity of the first quantity line after line k, 1 when none follows
QuantityFor(k) ==
    LET later == {j \in (k + 1)..Len(lines) : IsQuantityLine(j)}
    IN  IF later = {} THEN 1 ELSE DigitsValue(qty_regex(CleanLine(SetMin(later))))

\* C17: when the scanner has returned, the items are the candidates of the
\* lines, line after line: each candidate of a line once, with the quantity
\* of the first quantity line after its line or 1, and nothing else; so all
\* that was pending has been emitted.
C17_Conservation ==
    scan_pc = "done" =>
        /\ Len(results) = CandidatesBefore(Len(lines) + 1)
        /\ \A k \in 1..Len(lines) :
              LET at == {i \in 1..Len(results) :
                            /\ i > CandidatesBefore(k)
                            /\ i <= CandidatesBefore(k + 1)}
              IN  /\ {results[i].part : i \in at} = Candidates(k)
                  /\ \A i \in at : results[i].req_qty = QuantityFor(k)

\* the same candidate was found on two lines, with a quantity line behind the
\* first, and is in two items
C17_Witness ==
    /\ scan_pc = "done"
    /\ \E k1, k2 \in 1..Len(lines) :
          /\ k1 < k2
          /\ Candidates(k1) \cap Candidates(k2) # {}
          /\ QuantityFor(k1) # QuantityFor(k2)
          /\ Cardinality(Candidates(k2)) > 1

(***************************************************************************)
(* The claims about the reports of the polling cycles, checked under Spec.  *)
(***************************************************************************)
\* the loop is at an unread message whose subject holds 'Inventory Alert'
AtUnreadAlert ==
    /\ cycle_pc = "loop"
    /\ msg_no <= Len(messages)
    /\ ~inbox[messages[msg_no]].is_read
    /\ Contains(inbox[messages[msg_no]].subject, InventoryAlert)

\* every report has the subject of a report, and none was triggered by one
C18_State ==
    \A i \in 1..Len(sent) :
        /\ StartsWith(sent[i].subject,
                      <<"I", "n", "v", "e", "n", "t", "o", "r", "y", " ", "A", "l", "e", "r", "t", ":", " ">>)
        /\ ~Contains(sent[i].trigger, InventoryAlert)

\* the loop passes an unread alert: it marks it as read, does not extract
\* from it and sends nothing
C18_Step ==
    (AtUnreadAlert /\ <<msg_no, cycle_pc>>' # <<msg_no, cycle_pc>>) =>
        /\ inbox'[messages[msg_no]].is_read
        /\ cycle_pc' = "loop" /\ msg_no' = msg_no + 1
        /\ ext_pc' = "idle"
        /\ sent' = sent

\* C18: an unread message whose subject holds 'Inventory Alert' is marked as
\* read without extraction and without a report; every report has a subject
\* that begins with 'Inventory Alert: '; so a report that comes back into the
\* mailbox, with 'C CHECK' still in its subject, triggers no report.
C18_NoReportOnReports == [](C18_State) /\ [][C18_Step]_vars

\* a report came back into the mailbox, with 'C CHECK' in its subject, and
\* was marked as read; no further report was sent
C18_Witness ==
    /\ Len(sent) = 1
    /\ cycle_pc = "sleep"
    /\ \E k \in 1..Len(inbox) :
          /\ inbox[k].is_read
          /\ inbox[k].subject = sent[1].subject
          /\ inbox[k].body.tables # << >>
          /\ Contains(inbox[k].subject, CCheck)

\* there are no more reports than messages marked as read
C19_State ==
    Len(sent) <= Cardinality({k \in 1..Len(inbox) : inbox[k].is_read})

C19_Step ==
    \* a message stays what it is, and stays read once it is
    /\ \A k \in 1..Len(inbox) :
          /\ [inbox'[k] EXCEPT !.is_read = FALSE] = [inbox[k] EXCEPT !.is_read = FALSE]
          /\ inbox[k].is_read => inbox'[k].is_read
    \* a report is one report, for the message the loop is at, which was unread
    \* and is read after the step
    /\ sent' # sent =>
          /\ sent' = Append(sent, sent'[Len(sent')])
          /\ cycle_pc = "matching"
          /\ sent'[Len(sent')].trigger = inbox[messages[msg_no]].subject
          /\ ~inbox[messages[msg_no]].is_read
          /\ inbox'[messages[msg_no]].is_read
    \* the call of extract_data_from_email is on an unread message
    /\ (cycle_pc = "loop" /\ cycle_pc' = "extracting") =>
          /\ ~inbox[messages[msg_no]].is_read
          /\ message' = inbox[messages[msg_no]]
    \* a message with items is not marked as read before all of them are reconciled
    /\ ItemsExtracted => ~inbox'[messages[msg_no]].is_read
    /\ cycle_pc = "matching" =>
          /\ ~inbox[messages[msg_no]].is_read
          /\ inbox'[messages[msg_no]].is_read => Len(match_results) = Len(items)

\* C19: over the cycles a message gets at most one report: a report is sent
\* only for a message that is unread when the loop is at it, the message is
\* marked as read with the report, a read message is neither extracted from
\* nor reported on again, and a message with items is not marked as read
\* before its reconciliation has run.
C19_OneReportPerMessage == [](C19_State) /\ [][C19_Step]_vars

\* in a later cycle, which fetched the report that came back, the loop has
\* passed the message that was reported on: there is still one report
C19_Witness ==
    /\ Len(sent) = 1
    /\ cycle_pc = "loop"
    /\ Len(messages) = 2
    /\ msg_no = 2
    /\ inbox[1].is_read
    /\ inbox[1].subject = sent[1].trigger
    /\ inbox[2].subject = sent[1].subject
    /\ inbox[2].body.tables # << >>

====
